---- MODULE Spec2Model ----
(***************************************************************************)
(* The object caches of lib/utils.py: FastStore (bounded, oldest-first),   *)
(* TimeBasedCache (sliding age, with a house keeper thread) and            *)
(* AgeBasedCache (absolute age).                                           *)
(*                                                                         *)
(* Python objects are modelled as tuples: None is the empty tuple, an      *)
(* opaque cached object is a one-element tuple <<i>>, and the list         *)
(* [timestamp, obj] that the timed caches store is <<timestamp, obj>>.     *)
(* Keys are strings; their characters are given by Chars for re.match.     *)
(***************************************************************************)
EXTENDS Integers, Sequences, FiniteSets, TLC

VARIABLES
    variant,    \* the class of the store: "Fast", "Time" or "Age"
    limit,      \* self._limit
    max_age,    \* self.max_age (timed caches)
    has_cb,     \* whether self._kill_cb is set
    age,        \* self._age: list of keys, oldest first
    hash,       \* self._hash: dict key -> stored object
    now,        \* time.time()
    hk_pc,      \* position of the house keeper thread
    hk_now,     \* HouseKeeper's local `now`
    hk_idx,     \* position of HouseKeeper's iterator over self._age
    hk_key,     \* HouseKeeper's local `key`
    op,         \* the last call that ran on the store: name, arguments, result
    cb,         \* the arguments self._kill_cb received during that call
    lock,       \* self.lock: the thread that owns the RLock and its count
    stack,      \* for each thread, the calls on the store it is inside of
    exit,       \* self.exit as the house keeper thread reads it
    has_time,   \* whether the module global `time` still is the module
    slept,      \* the sleeps done in the `for _ in range(self.sleep_time)` loop
    shut        \* what the thread did since exit was set or `time` went away

vars == <<variant, limit, max_age, has_cb, age, hash, now,
          hk_pc, hk_now, hk_idx, hk_key, op, cb, lock, stack,
          exit, has_time, slept, shut>>

config == <<variant, limit, max_age, has_cb>>
hk == <<hk_pc, hk_now, hk_idx, hk_key>>
history == <<op, cb>>
sync == <<lock, stack>>
thread == <<exit, has_time, slept, shut>>

(***************************************************************************)
(* Bounds of the model.                                                    *)
(***************************************************************************)
MaxSize == 2        \* largest max_size a store is constructed with
MaxAge == 1         \* largest max_age a store is constructed with
MaxTime == 2        \* the clock stops advancing here

Keys == {"a", "ab", "b"}
PyNone == <<>>
Objects == {<<1>>}
Values == Objects \cup {PyNone}
Variants == {"Fast", "Time", "Age"}
Threads == {"client", "hk"}
Patterns == {<<"a">>, <<"a", "b">>, <<".">>}

Timed == variant \in {"Time", "Age"}

(***************************************************************************)
(* Python lists and dicts.                                                 *)
(***************************************************************************)
\* list.index(x): the first position of x, 0 standing for ValueError
ListIndex(s, x) ==
    IF \E i \in 1..Len(s) : s[i] = x
    THEN CHOOSE i \in 1..Len(s) : s[i] = x /\ \A j \in 1..(i - 1) : s[j] # x
    ELSE 0

\* list.pop(i), the list that remains
ListPop(s, i) == [j \in 1..(Len(s) - 1) |-> IF j < i THEN s[j] ELSE s[j + 1]]

\* d[key] = obj
DictSet(d, key, obj) ==
    [k \in DOMAIN d \cup {key} |-> IF k = key THEN obj ELSE d[k]]

\* dict.pop(key, None), the dict that remains
DictDel(d, key) == [k \in DOMAIN d \ {key} |-> d[k]]

\* dict.pop(key, None), the value returned
DictPop(d, key) == IF key \in DOMAIN d THEN d[key] ELSE PyNone

EmptyDict == [k \in {} |-> PyNone]

SeqSet(s) == {s[i] : i \in 1..Len(s)}

\* the characters of a key
Chars(k) ==
    CASE k = "a" -> <<"a">>
      [] k = "ab" -> <<"a", "b">>
      [] k = "b" -> <<"b">>

\* re.match(regex, key) for a regex of literal characters and dots: the regex
\* matches a prefix of the key
ReMatch(regex, key) ==
    /\ Len(regex) <= Len(Chars(key))
    /\ \A i \in 1..Len(regex) : regex[i] = "." \/ regex[i] = Chars(key)[i]

(***************************************************************************)
(* The methods, as functions of the store S = [age, hash, cb] to the store *)
(* they leave, with the value they return in ret and the exception they    *)
(* raise in exc.                                                           *)
(***************************************************************************)
Store(a, h, c) == [age |-> a, hash |-> h, cb |-> c]

Ret(S, exc, val, key) ==
    [age |-> S.age, hash |-> S.hash, cb |-> S.cb, exc |-> exc, ret |-> val, rkey |-> key]

\* the condition under which ExpireObject calls the callback
KillCbCalled(obj) == has_cb /\ obj # PyNone

\* FastStore.ExpireObject
ExpireObject(S, key) ==
    LET obj == DictPop(S.hash, key)
    IN  [age |-> S.age,
         hash |-> DictDel(S.hash, key),
         cb |-> IF KillCbCalled(obj) THEN Append(S.cb, obj) ELSE S.cb,
         exc |-> "none", ret |-> obj, rkey |-> ""]

\* Expire popping self._age without calling ExpireObject
Expire_PopOnly(S) ==
    IF Len(S.age) > limit
    THEN Ret(Store(Tail(S.age), S.hash, S.cb), "none", PyNone, "")
    ELSE Ret(S, "none", PyNone, "")

\* Expire without its loop
Expire_NoLoop(S) == Ret(S, "none", PyNone, "")

\* FastStore.Expire
RECURSIVE Expire(_)
Expire(S) ==
    IF Len(S.age) > limit
    THEN LET x == Head(S.age)
             T == ExpireObject(Store(Tail(S.age), S.hash, S.cb), x)
         IN  Expire(Store(T.age, T.hash, T.cb))
    ELSE Ret(S, "none", PyNone, "")

\* Put appending the key without looking for it in the list
PutAge_NoPop(a, key) == Append(a, key)

\* the list Put leaves before it enforces the limit
PutAge(a, key) ==
    LET idx == ListIndex(a, key)
    IN  Append(IF idx # 0 THEN ListPop(a, idx) ELSE a, key)

\* FastStore.Put
FastPut(S, key, obj) ==
    LET T == Expire(Store(PutAge(S.age, key), DictSet(S.hash, key, obj), S.cb))
    IN  Ret(T, "none", PyNone, key)

\* a lookup that leaves the list as it is
GetAge_NoTouch(a, idx) == a

\* the list a successful index lookup of Get leaves
GetAge(a, idx) == Append(ListPop(a, idx), a[idx])

\* FastStore.Get
FastGet(S, key) ==
    LET idx == ListIndex(S.age, key)
    IN  IF idx = 0
        THEN Ret(S, "KeyError", PyNone, key)
        ELSE LET T == Store(GetAge(S.age, idx), S.hash, S.cb)
             IN  IF key \in DOMAIN S.hash
                 THEN Ret(T, "none", S.hash[key], "")
                 ELSE Ret(T, "KeyError", PyNone, key)

\* FastStore.__contains__
Contains(key) == key \in DOMAIN hash

\* FastStore.Flush
RECURSIVE FlushLoop(_)
FlushLoop(S) ==
    IF Len(S.age) > 0
    THEN LET x == Head(S.age)
             T == ExpireObject(Store(Tail(S.age), S.hash, S.cb), x)
         IN  FlushLoop(Store(T.age, T.hash, T.cb))
    ELSE S

Flush(S) == Ret(Store(FlushLoop(S).age, EmptyDict, FlushLoop(S).cb), "none", PyNone, "")

\* FastStore.ExpireRegEx, keys being self._hash.keys() in the order the dict
\* yields them
RECURSIVE ExpireRegEx(_, _, _)
ExpireRegEx(S, regex, keys) ==
    IF keys = <<>>
    THEN Ret(S, "none", PyNone, "")
    ELSE LET T == IF ReMatch(regex, Head(keys))
                  THEN ExpireObject(S, Head(keys))
                  ELSE S
         IN  ExpireRegEx(Store(T.age, T.hash, T.cb), regex, Tail(keys))

\* the test `stored[0] + self.max_age < now`
IsExpired(stored, t) == stored[1] + max_age < t

\* TimeBasedCache.Put, t being the time.time() it reads
TimePut(S, key, obj, t) ==
    LET T == FastPut(S, key, <<t, obj>>)
    IN  Ret(T, "none", PyNone, "")

\* TimeBasedCache.Get without the update of the timestamp
TimeGet_NoRefresh(S, key, t) ==
    LET T == FastGet(S, key)
    IN  IF T.exc # "none" THEN T
        ELSE IF IsExpired(T.ret, t) THEN Ret(T, "Expired", PyNone, "")
        ELSE Ret(T, "none", T.ret[2], "")

\* TimeBasedCache.Get
TimeGet(S, key, t) ==
    LET T == FastGet(S, key)
    IN  IF T.exc # "none" THEN T
        ELSE IF IsExpired(T.ret, t) THEN Ret(T, "Expired", PyNone, "")
        ELSE Ret(Store(T.age, DictSet(T.hash, key, <<t, T.ret[2]>>), T.cb),
                 "none", T.ret[2], "")

\* AgeBasedCache.Get calling TimeBasedCache.Get instead of FastStore.Get
AgeGet_Super(S, key, t) == TimeGet(S, key, t)

\* AgeBasedCache.Get
AgeGet(S, key, t) ==
    LET T == FastGet(S, key)
    IN  IF T.exc # "none" THEN T
        ELSE IF IsExpired(T.ret, t) THEN Ret(T, "Expired", PyNone, "")
        ELSE Ret(T, "none", T.ret[2], "")

\* the dict FastStore.__getstate__ and TimeBasedCache.__getstate__ return
StateDict ==
    IF Timed THEN [max_size |-> limit, max_age |-> max_age]
    ELSE [max_size |-> limit]

\* __getstate__ flushing the store before it looks at the callback
GetState_FlushFirst(S) ==
    IF has_cb THEN Ret(Flush(S), "RuntimeError", PyNone, "")
    ELSE Ret(Flush(S), "none", StateDict, "")

\* FastStore.__getstate__, TimeBasedCache.__getstate__
GetState(S) ==
    IF has_cb THEN Ret(S, "RuntimeError", PyNone, "")
    ELSE Ret(Flush(S), "none", StateDict, "")

\* the default of max_age in TimeBasedCache.__init__
DefaultMaxAge == 600

\* the arguments FastStore.__setstate__ passes to __init__; the class has no
\* max_age
FastSetState(state) == [max_size |-> state.max_size, max_age |-> max_age]

\* TimeBasedCache.__setstate__ passing max_size only
TimeSetState_SizeOnly(state) ==
    [max_size |-> state.max_size, max_age |-> DefaultMaxAge]

\* the arguments TimeBasedCache.__setstate__ passes to __init__
TimeSetState(state) == [max_size |-> state.max_size, max_age |-> state.max_age]

SetState(state) == IF Timed THEN TimeSetState(state) ELSE FastSetState(state)

\* Put and Get as the store's class dispatches them
Put(S, key, obj, t) ==
    IF Timed THEN TimePut(S, key, obj, t) ELSE FastPut(S, key, obj)

Get(S, key, t) ==
    CASE variant = "Fast" -> FastGet(S, key)
      [] variant = "Time" -> TimeGet(S, key, t)
      [] variant = "Age" -> AgeGet(S, key, t)

(***************************************************************************)
(* The state machine.                                                      *)
(***************************************************************************)
\* threading.RLock() as __init__ creates it
Unlocked == [owner |-> "none", count |-> 0]

\* nothing done yet since the thread was told to stop: the sleeps it has
\* completed, the calls of the target it has made, and whether it has read
\* self.exit as true or found `time` gone
NotShut == [sleeps |-> 0, sweeps |-> 0, seen |-> FALSE]

NoOp == [name |-> "init", key |-> "", exc |-> "none", ret |-> PyNone, rkey |-> ""]

Init ==
    /\ variant \in Variants
    /\ limit \in 1..MaxSize
    /\ max_age \in 1..MaxAge
    /\ has_cb \in BOOLEAN
    /\ age = <<>>
    /\ hash = EmptyDict
    /\ now = 0
    /\ hk_pc = IF Timed THEN "start" ELSE "none"
    /\ hk_now = 0
    /\ hk_idx = 0
    /\ hk_key = ""
    /\ op = NoOp
    /\ cb = <<>>
    /\ lock = Unlocked
    /\ stack = [t \in Threads |-> <<>>]
    /\ exit = FALSE
    /\ has_time = TRUE
    /\ slept = 0
    /\ shut = NotShut

\* a call on the store by a thread that holds self.lock: R is what the method
\* computes from the store as it is
Call(name, key, R) ==
    /\ age' = R.age
    /\ hash' = R.hash
    /\ cb' = R.cb
    /\ op' = [name |-> name, key |-> key, exc |-> R.exc, ret |-> R.ret, rkey |-> R.rkey]

Cur == Store(age, hash, <<>>)

PutCall(key, obj) ==
    /\ UNCHANGED <<config, thread, sync, now, hk>>
    /\ Call("Put", key, Put(Cur, key, obj, now))

GetCall(key) ==
    /\ UNCHANGED <<config, thread, sync, now, hk>>
    /\ Call("Get", key, Get(Cur, key, now))

ExpireObjectCall(key) ==
    /\ UNCHANGED <<config, thread, sync, now, hk>>
    /\ Call("ExpireObject", key, ExpireObject(Cur, key))

\* the orders in which a dict may yield its keys
KeyOrders(d) ==
    {s \in [1..Cardinality(DOMAIN d) -> DOMAIN d] : SeqSet(s) = DOMAIN d}

ExpireRegExCall(regex, keys) ==
    /\ UNCHANGED <<config, thread, sync, now, hk>>
    /\ Call("ExpireRegEx", "", ExpireRegEx(Cur, regex, keys))

DoPut == \E key \in Keys, obj \in Values : PutCall(key, obj)

DoGet == \E key \in Keys : GetCall(key)

DoExpireObject == \E key \in Keys : ExpireObjectCall(key)

DoExpireRegEx ==
    \E regex \in Patterns, keys \in KeyOrders(hash) : ExpireRegExCall(regex, keys)

DoFlush ==
    /\ UNCHANGED <<config, thread, sync, now, hk>>
    /\ Call("Flush", "", Flush(Cur))

DoExpire ==
    /\ UNCHANGED <<config, thread, sync, now, hk>>
    /\ Call("Expire", "", Expire(Cur))

\* time passes for the caches that read the clock
Tick ==
    /\ Timed
    /\ now < MaxTime
    /\ now' = now + 1
    /\ UNCHANGED <<config, thread, sync, age, hash, hk, history>>

\* InterruptableThread.run calls the target: HouseKeeper reads the clock and
\* starts `for key in self._age`
HKStart ==
    /\ hk_pc \in {"start", "sleep"}
    /\ hk_pc' = "iter"
    /\ hk_now' = now
    /\ hk_idx' = 0
    /\ hk_key' = ""
    /\ UNCHANGED <<config, thread, sync, age, hash, now, history>>

\* HouseKeeper, without self.lock: the list iterator yields the next key and
\* the thread reads `timestamp, _ = self._hash[key]` (KeyError: pass) and
\* tests the timestamp; or the list is exhausted and the thread goes to sleep
HKStep ==
    /\ hk_pc = "iter"
    /\ IF hk_idx < Len(age)
       THEN LET key == age[hk_idx + 1]
            IN  /\ hk_idx' = hk_idx + 1
                /\ IF key \in DOMAIN hash /\ IsExpired(hash[key], hk_now)
                   THEN hk_pc' = "expire" /\ hk_key' = key
                   ELSE hk_pc' = "iter" /\ hk_key' = ""
       ELSE /\ hk_pc' = "sleep"
            /\ hk_idx' = 0
            /\ hk_key' = ""
    /\ UNCHANGED <<config, thread, sync, age, hash, now, hk_now, history>>

\* HouseKeeper: `self.ExpireObject(key)`, which takes self.lock
HKExpire ==
    /\ hk_pc = "expire"
    /\ Call("HouseKeeper", hk_key, ExpireObject(Cur, hk_key))
    /\ hk_pc' = "iter"
    /\ hk_key' = ""
    /\ UNCHANGED <<config, thread, sync, now, hk_now, hk_idx>>

\* a thread pickles the store: __getstate__
DoGetState ==
    /\ UNCHANGED <<config, thread, sync, now, hk>>
    /\ Call("GetState", "", GetState(Cur))

\* the state dicts __setstate__ is given: those __getstate__ returns, and
\* those with max_size = 0
ConfigStates ==
    IF Timed
    THEN {[max_size |-> n, max_age |-> m] : n \in 0..MaxSize, m \in 1..MaxAge}
    ELSE {[max_size |-> n] : n \in 0..MaxSize}

\* __setstate__(state) on a new object of the same class: __init__ runs with
\* the arguments taken from state, and the store is that new object
SetStateCall(state) ==
    /\ variant' = variant
    /\ limit' = SetState(state).max_size
    /\ max_age' = SetState(state).max_age
    /\ has_cb' = FALSE
    /\ age' = <<>>
    /\ hash' = EmptyDict
    /\ lock' = Unlocked
    /\ stack' = [t \in Threads |-> <<>>]
    /\ hk_pc' = IF Timed THEN "start" ELSE "none"
    /\ hk_now' = 0
    /\ hk_idx' = 0
    /\ hk_key' = ""
    /\ cb' = <<>>
    /\ op' = [name |-> "SetState", key |-> "", exc |-> "none", ret |-> PyNone, rkey |-> "",
              state |-> state]
    /\ UNCHANGED <<now, thread>>

DoSetState == \E state \in ConfigStates : SetStateCall(state)

Next ==
    \/ DoPut
    \/ DoGet
    \/ DoExpireObject
    \/ DoExpireRegEx
    \/ DoFlush
    \/ DoExpire
    \/ Tick
    \/ HKStart
    \/ HKStep
    \/ HKExpire

Spec == Init /\ [][Next]_vars

\* the store with no thread calling Get
NextNoGet ==
    \/ DoPut
    \/ DoExpireObject
    \/ DoExpireRegEx
    \/ DoFlush
    \/ DoExpire
    \/ Tick
    \/ HKStart
    \/ HKStep
    \/ HKExpire

SpecNoGet == Init /\ [][NextNoGet]_vars

\* the same with the house keeper thread scheduled again and again:
\* InterruptableThread.run loops for as long as the process lives
FairSpecNoGet ==
    SpecNoGet /\ WF_vars(HKStart) /\ WF_vars(HKStep) /\ WF_vars(HKExpire)

\* the store with threads that pickle and unpickle it
NextPickle ==
    \/ DoPut
    \/ DoGet
    \/ DoExpireObject
    \/ Tick
    \/ DoGetState
    \/ DoSetState

SpecPickle == Init /\ [][NextPickle]_vars

(***************************************************************************)
(* The calls step by step: each synchronized method a thread enters is a   *)
(* frame on the thread's stack, entered through `with self.lock`, and the  *)
(* callback may call ExpireObject on the store it was called from.         *)
(***************************************************************************)
\* the keys the step by step calls are made with
ReKeys == {"a", "b"}

\* a frame: the method, its key and object, where it is, and for ExpireObject
\* the key its callback removes (arg) and what that call returned (got)
Frame(fn, key, obj, pc) ==
    [fn |-> fn, key |-> key, obj |-> obj, pc |-> pc,
     arg |-> "", got |-> PyNone, cbdone |-> FALSE]

Top(t) == stack[t][Len(stack[t])]

\* acquire of a lock that is not reentrant
CanAcquire_NoReentry(t) == lock.owner = "none"

\* RLock.acquire does not block: the lock is free or the thread owns it
CanAcquire(t) == lock.owner \in {"none", t}

\* Synchronized: `with self.lock:` entered by thread t, then f called; st is
\* the stack of the thread as the caller leaves it
Enter(t, st, f) ==
    /\ CanAcquire(t)
    /\ lock' = [owner |-> t, count |-> lock.count + 1]
    /\ stack' = [stack EXCEPT ![t] = Append(st, f)]

\* Synchronized: f returns and `with self.lock:` is left; st is the stack of
\* the thread without the frame of f
Leave(t, st) ==
    /\ lock' = IF lock.count = 1 THEN Unlocked
               ELSE [owner |-> t, count |-> lock.count - 1]
    /\ stack' = [stack EXCEPT ![t] = st]

\* the stack with its top frame replaced
WithTop(st, f) == [st EXCEPT ![Len(st)] = f]

\* the stack without its top frame
Caller(st) == SubSeq(st, 1, Len(st) - 1)

\* a client thread calls Put(key, obj); TimeBasedCache.Put reads the clock
\* and calls FastStore.Put
ReCallPut(key, obj) ==
    /\ stack["client"] = <<>>
    /\ Enter("client", <<>>,
             Frame("Put", key, IF Timed THEN <<now, obj>> ELSE obj, "body"))
    /\ cb' = <<>>
    /\ UNCHANGED <<config, thread, age, hash, now, hk, op>>

\* Put: the key goes to the end of self._age, the object into self._hash
RePutBody(t) ==
    /\ stack[t] # <<>> /\ Top(t).fn = "Put" /\ Top(t).pc = "body"
    /\ age' = PutAge(age, Top(t).key)
    /\ hash' = DictSet(hash, Top(t).key, Top(t).obj)
    /\ stack' = [stack EXCEPT ![t] = WithTop(@, [Top(t) EXCEPT !.pc = "expire"])]
    /\ UNCHANGED <<config, thread, lock, now, hk, history>>

\* Put: self.Expire()
RePutExpire(t) ==
    /\ stack[t] # <<>> /\ Top(t).fn = "Put" /\ Top(t).pc = "expire"
    /\ Enter(t, WithTop(stack[t], [Top(t) EXCEPT !.pc = "ret"]),
             Frame("Expire", "", PyNone, "loop"))
    /\ UNCHANGED <<config, thread, age, hash, now, hk, history>>

\* Expire: the test of the while loop, and either x = self._age.pop(0) and
\* self.ExpireObject(x), or the return
ReExpireLoop(t) ==
    /\ stack[t] # <<>> /\ Top(t).fn = "Expire"
    /\ IF Len(age) > limit
       THEN /\ age' = Tail(age)
            /\ Enter(t, stack[t], Frame("ExpireObject", Head(age), PyNone, "pop"))
       ELSE /\ age' = age
            /\ Leave(t, Caller(stack[t]))
    /\ UNCHANGED <<config, thread, hash, now, hk, history>>

\* Put: return key (FastStore), or nothing (TimeBasedCache)
RePutReturn(t) ==
    /\ stack[t] # <<>> /\ Top(t).fn = "Put" /\ Top(t).pc = "ret"
    /\ Leave(t, Caller(stack[t]))
    /\ op' = [name |-> "Put", key |-> Top(t).key, exc |-> "none", ret |-> PyNone,
              rkey |-> IF Timed THEN "" ELSE Top(t).key]
    /\ UNCHANGED <<config, thread, age, hash, now, hk, cb>>

\* a client thread calls ExpireObject(key)
ReCallExpireObject(key) ==
    /\ stack["client"] = <<>>
    /\ Enter("client", <<>>, Frame("ExpireObject", key, PyNone, "pop"))
    /\ cb' = <<>>
    /\ UNCHANGED <<config, thread, age, hash, now, hk, op>>

\* ExpireObject: obj = self._hash.pop(key, None) and the test before the
\* callback
ReExpireObjectPop(t) ==
    /\ stack[t] # <<>> /\ Top(t).fn = "ExpireObject" /\ Top(t).pc = "pop"
    /\ hash' = DictDel(hash, Top(t).key)
    /\ LET obj == DictPop(hash, Top(t).key)
       IN  stack' = [stack EXCEPT ![t] = WithTop(@,
                [Top(t) EXCEPT !.obj = obj,
                               !.pc = IF KillCbCalled(obj) THEN "cb" ELSE "ret"])]
    /\ UNCHANGED <<config, thread, age, lock, now, hk, history>>

\* ExpireObject: self._kill_cb(obj) is called; the callback returns at once
\* (k = "") or goes on to call ExpireObject(k) on the store
ReCallback(t) ==
    /\ stack[t] # <<>> /\ Top(t).fn = "ExpireObject" /\ Top(t).pc = "cb"
    /\ cb' = Append(cb, Top(t).obj)
    /\ \E k \in ReKeys \cup {""} :
          stack' = [stack EXCEPT ![t] = WithTop(@,
                [Top(t) EXCEPT !.arg = k,
                               !.pc = IF k = "" THEN "ret" ELSE "cb_call"])]
    /\ UNCHANGED <<config, thread, age, hash, lock, now, hk, op>>

\* the callback, on the thread that evicts: self.ExpireObject(k)
ReCallbackRemove(t) ==
    /\ stack[t] # <<>> /\ Top(t).fn = "ExpireObject" /\ Top(t).pc = "cb_call"
    /\ Enter(t, WithTop(stack[t], [Top(t) EXCEPT !.pc = "in_cb"]),
             Frame("ExpireObject", Top(t).arg, PyNone, "pop"))
    /\ UNCHANGED <<config, thread, age, hash, now, hk, history>>

\* ExpireObject: return obj, to the callback that called it, to Expire, to
\* the client or to the house keeper
ReExpireObjectReturn(t) ==
    /\ stack[t] # <<>> /\ Top(t).fn = "ExpireObject" /\ Top(t).pc = "ret"
    /\ LET rest == Caller(stack[t])
           outer == rest[Len(rest)]
       IN  /\ IF rest # <<>> /\ outer.fn = "ExpireObject"
              THEN Leave(t, WithTop(rest, [outer EXCEPT !.pc = "ret",
                                                        !.got = Top(t).obj,
                                                        !.cbdone = TRUE]))
              ELSE Leave(t, rest)
           /\ IF rest # <<>>
              THEN UNCHANGED <<op, hk>>
              ELSE /\ op' = [name |-> IF t = "hk" THEN "HouseKeeper" ELSE "ExpireObject",
                             key |-> Top(t).key, exc |-> "none",
                             ret |-> Top(t).obj, rkey |-> ""]
                   /\ IF t = "hk"
                      THEN hk_pc' = "iter" /\ hk_key' = "" /\ UNCHANGED <<hk_now, hk_idx>>
                      ELSE UNCHANGED hk
    /\ UNCHANGED <<config, thread, age, hash, now, cb>>

\* HouseKeeper: self.ExpireObject(key)
ReHKExpire ==
    /\ hk_pc = "expire"
    /\ stack["hk"] = <<>>
    /\ Enter("hk", <<>>, Frame("ExpireObject", hk_key, PyNone, "pop"))
    /\ hk_pc' = "in_expire"
    /\ cb' = <<>>
    /\ UNCHANGED <<config, thread, age, hash, now, hk_now, hk_idx, hk_key, op>>

\* a step of thread t inside a call on the store
ThreadStep(t) ==
    \/ RePutBody(t)
    \/ RePutExpire(t)
    \/ ReExpireLoop(t)
    \/ RePutReturn(t)
    \/ ReExpireObjectPop(t)
    \/ ReCallback(t)
    \/ ReCallbackRemove(t)
    \/ ReExpireObjectReturn(t)

NextReentrant ==
    \/ \E key \in ReKeys, obj \in Objects : ReCallPut(key, obj)
    \/ \E key \in ReKeys : ReCallExpireObject(key)
    \/ \E t \in Threads : RePutBody(t)
    \/ \E t \in Threads : RePutExpire(t)
    \/ \E t \in Threads : ReExpireLoop(t)
    \/ \E t \in Threads : RePutReturn(t)
    \/ \E t \in Threads : ReExpireObjectPop(t)
    \/ \E t \in Threads : ReCallback(t)
    \/ \E t \in Threads : ReCallbackRemove(t)
    \/ \E t \in Threads : ReExpireObjectReturn(t)
    \/ Tick
    \/ HKStart
    \/ HKStep
    \/ ReHKExpire

\* the stores that have a callback
InitReentrant == Init /\ has_cb

SpecReentrant == InitReentrant /\ [][NextReentrant]_vars

\* a thread that is inside a call goes on running: the interpreter schedules
\* every thread that can run
FairSpecReentrant ==
    SpecReentrant /\ WF_vars(ThreadStep("client")) /\ WF_vars(ThreadStep("hk"))

(***************************************************************************)
(* The house keeper with a callback that raises.                           *)
(***************************************************************************)
\* what the callback raises: the exception HouseKeeper catches, and another
CallbackErrors == {"KeyError", "RuntimeError"}

\* HouseKeeper: `self.ExpireObject(key)` pops the object and calls the
\* callback, which raises e. `except KeyError: pass` catches a KeyError and
\* the loop goes on; any other exception leaves HouseKeeper and
\* InterruptableThread.run, and the thread ends
HKExpireRaise(e) ==
    /\ hk_pc = "expire"
    /\ KillCbCalled(DictPop(hash, hk_key))
    /\ age' = age
    /\ hash' = DictDel(hash, hk_key)
    /\ cb' = <<DictPop(hash, hk_key)>>
    /\ op' = [name |-> "HouseKeeper", key |-> hk_key, exc |-> e, ret |-> PyNone, rkey |-> ""]
    /\ hk_pc' = IF e = "KeyError" THEN "iter" ELSE "dead"
    /\ hk_key' = ""
    /\ UNCHANGED <<config, thread, sync, now, hk_now, hk_idx>>

NextFailingCb ==
    \/ NextNoGet
    \/ \E e \in CallbackErrors : HKExpireRaise(e)

SpecFailingCb == Init /\ [][NextFailingCb]_vars

(***************************************************************************)
(* InterruptableThread.run, statement by statement, with the shutdown      *)
(* flag and the module global `time` that interpreter teardown sets to     *)
(* None. hk_pc is the statement the thread is at:                          *)
(*   "start"     `while not self.exit`                                     *)
(*   "call"      `self.target()`, HouseKeeper's `if not time: return`      *)
(*   "read"      HouseKeeper's `now = time.time()`                         *)
(*   "iter", "expire"  HouseKeeper's loop (HKStep, HKExpire)               *)
(*   "sleep"     `for _ in range(self.sleep_time)` and `if self.exit`      *)
(*   "try"       `if time:`                                                *)
(*   "sleepcall" `time.sleep(1)`: the attribute lookup and the call        *)
(*   "sleeping"  inside time.sleep(1)                                      *)
(*   "done"      run has returned; "dead": run was left by an exception    *)
(***************************************************************************)
\* sleep_time, the number of one second sleeps between two calls of the
\* target
SleepTime == 2

\* the for loop never leaving on self.exit
BreakOnExit_Never == FALSE

\* `if self.exit: break` in the for loop
BreakOnExit == exit

\* the thread has been told to stop: the flag is set or `time` is gone
Down == exit \/ ~has_time

\* `while not self.exit:` the loop is left and run returns, or the body is
\* entered (and `range(self.sleep_time)` will start from zero)
RunWhile ==
    /\ hk_pc = "start"
    /\ IF exit
       THEN hk_pc' = "done" /\ shut' = [shut EXCEPT !.seen = TRUE]
       ELSE hk_pc' = "call" /\ shut' = shut
    /\ slept' = 0
    /\ UNCHANGED <<config, sync, age, hash, now, hk_now, hk_idx, hk_key, history, exit, has_time>>

\* `self.target()`: HouseKeeper is called; `if not time: return`
RunTarget ==
    /\ hk_pc = "call"
    /\ hk_pc' = IF has_time THEN "read" ELSE "sleep"
    /\ shut' = IF Down THEN [shut EXCEPT !.sweeps = @ + 1] ELSE shut
    /\ UNCHANGED <<config, sync, age, hash, now, hk_now, hk_idx, hk_key, history, exit, has_time, slept>>

\* HouseKeeper: `now = time.time()` and the start of `for key in self._age`;
\* with `time` gone since the test the attribute lookup raises
\* AttributeError, which nothing in run catches
RunRead ==
    /\ hk_pc = "read"
    /\ IF has_time
       THEN hk_pc' = "iter" /\ hk_now' = now
       ELSE hk_pc' = "dead" /\ hk_now' = hk_now
    /\ hk_idx' = 0
    /\ hk_key' = ""
    /\ UNCHANGED <<config, thread, sync, age, hash, now, history>>

\* `for _ in range(self.sleep_time):` is exhausted, or `if self.exit: break`
\* leaves it, or the try statement is entered
RunFor ==
    /\ hk_pc = "sleep"
    /\ IF slept >= SleepTime
       THEN hk_pc' = "start" /\ shut' = shut
       ELSE IF BreakOnExit
            THEN hk_pc' = "start" /\ shut' = [shut EXCEPT !.seen = TRUE]
            ELSE hk_pc' = "try" /\ shut' = shut
    /\ UNCHANGED <<config, sync, age, hash, now, hk_now, hk_idx, hk_key, history, exit, has_time, slept>>

\* `if time:` ... `else: self.exit = True; break`
RunTry ==
    /\ hk_pc = "try"
    /\ IF has_time
       THEN hk_pc' = "sleepcall" /\ exit' = exit /\ shut' = shut
       ELSE hk_pc' = "start" /\ exit' = TRUE /\ shut' = [shut EXCEPT !.seen = TRUE]
    /\ UNCHANGED <<config, sync, age, hash, now, hk_now, hk_idx, hk_key, history, has_time, slept>>

\* `time.sleep(1)` is called; with `time` gone since the test,
\* `except AttributeError: self.exit = True; break`
RunSleepCall ==
    /\ hk_pc = "sleepcall"
    /\ IF has_time
       THEN hk_pc' = "sleeping" /\ exit' = exit /\ shut' = shut
       ELSE hk_pc' = "start" /\ exit' = TRUE /\ shut' = [shut EXCEPT !.seen = TRUE]
    /\ UNCHANGED <<config, sync, age, hash, now, hk_now, hk_idx, hk_key, history, has_time, slept>>

\* time.sleep(1) returns a second later (the clock of the model stops at
\* MaxTime) and the for loop goes to its next round
RunSleepDone ==
    /\ hk_pc = "sleeping"
    /\ hk_pc' = "sleep"
    /\ slept' = slept + 1
    /\ now' = IF now < MaxTime THEN now + 1 ELSE now
    /\ shut' = IF Down THEN [shut EXCEPT !.sleeps = @ + 1] ELSE shut
    /\ UNCHANGED <<config, sync, age, hash, hk_now, hk_idx, hk_key, history, exit, has_time>>

\* the steps of the house keeper thread
RunStep ==
    \/ RunWhile
    \/ RunTarget
    \/ RunRead
    \/ HKStep
    \/ HKExpire
    \/ RunFor
    \/ RunTry
    \/ RunSleepCall
    \/ RunSleepDone

\* another thread sets the flag of the class: InterruptableThread.exit = True
SetExit ==
    /\ ~exit
    /\ exit' = TRUE
    /\ UNCHANGED <<config, sync, age, hash, now, hk, history, has_time, slept, shut>>

\* the main thread exits and the interpreter sets the module global `time`
\* to None
TimeGone ==
    /\ has_time
    /\ has_time' = FALSE
    /\ UNCHANGED <<config, sync, age, hash, now, hk, history, exit, slept, shut>>

\* the store with its house keeper thread and a client that fills it;
\* TimeBasedCache.Put reads time.time(), which a client does while `time` is
\* there
NextShutdown ==
    \/ has_time /\ DoPut
    \/ has_time /\ Tick
    \/ RunStep
    \/ SetExit
    \/ TimeGone

\* TimeBasedCache.__init__ starts the house keeper thread; AgeBasedCache
\* inherits it and differs in Get alone, which no thread calls here
InitShutdown == Init /\ variant = "Time"

SpecShutdown == InitShutdown /\ [][NextShutdown]_vars

\* the thread is scheduled for as long as it has a step to take: the sleep
\* returns, and ExpireObject gets self.lock
FairSpecShutdown == SpecShutdown /\ WF_vars(RunStep)

(***************************************************************************)
(* Properties.                                                             *)
(***************************************************************************)
\* the object the caller passed to Put, given what the store holds for it
UserValue(stored) == IF Timed THEN stored[2] ELSE stored

\* the list a without the key k
Without(a, k) == LET Keep(x) == x # k IN SelectSeq(a, Keep)

\* C1: capacity invariant: in every store variant the entry mapping holds at
\* most max_size entries after each Put (and in every other state)
CapacityInvariant == Cardinality(DOMAIN hash) <= limit

\* C1: a Put has filled the store to max_size by evicting an entry
CapacityWitness ==
    /\ op.name = "Put"
    /\ Cardinality(DOMAIN hash) = limit
    /\ Len(age) = limit
    /\ has_cb /\ Len(cb) = 1

\* C2: after every operation the keys of the recency ordering are exactly the
\* keys of the entry mapping
RecencyKeysAreEntryKeys == SeqSet(age) = DOMAIN hash

\* the steps that are the call Put(key, obj), Get(key), ExpireObject(key)
PutStep(key, obj) == op'.name = "Put" /\ op'.key = key /\ PutCall(key, obj)
GetStep(key) == op'.name = "Get" /\ op'.key = key /\ GetCall(key)
ExpireObjectStep(key) ==
    op'.name = "ExpireObject" /\ op'.key = key /\ ExpireObjectCall(key)

\* a step in which a thread ran a method of the store
AnyCall ==
    \/ \E key \in Keys, obj \in Values : PutStep(key, obj)
    \/ \E key \in Keys : GetStep(key)
    \/ \E key \in Keys : ExpireObjectStep(key)
    \/ op'.name = "ExpireRegEx" /\ DoExpireRegEx
    \/ op'.name = "Flush" /\ DoFlush
    \/ op'.name = "Expire" /\ DoExpire
    \/ op'.name = "HouseKeeper" /\ HKExpire

\* the keys whose entries a step removes
Removed == DOMAIN hash \ DOMAIN hash'

\* C3: in the FastStore, a Put of a new key into a full store evicts exactly
\* the oldest entry, calls the callback once with its value, and afterwards
\* Get of the evicted key raises KeyError and Get of every other key succeeds
LRUEviction ==
    [][\A key \in Keys, obj \in Values :
        (/\ PutStep(key, obj)
         /\ variant = "Fast"
         /\ key \notin DOMAIN hash
         /\ Cardinality(DOMAIN hash) = limit)
        => LET old == Head(age)
               After == Store(age', hash', <<>>)
           IN  /\ DOMAIN hash' = (DOMAIN hash \ {old}) \cup {key}
               /\ has_cb => cb' = <<hash[old]>>
               /\ Get(After, old, now).exc = "KeyError"
               /\ \A k \in DOMAIN hash' :
                    Get(After, k, now).exc = "none" /\ Get(After, k, now).ret = hash'[k]
      ]_vars

\* C4 as stated: a successful Get(k) moves k to the newest end of the recency
\* ordering, and the Put that follows it evicts the oldest entry and never k
TouchProtectsAlways ==
    [][/\ \A k \in Keys :
            GetStep(k) /\ op'.exc = "none" => age' = Append(Without(age, k), k)
       /\ \A key \in Keys, obj \in Values :
            (PutStep(key, obj) /\ op.name = "Get" /\ op.exc = "none")
            => /\ Removed \subseteq {Head(age)}
               /\ op.key \notin Removed
      ]_vars

\* C4, amended: a successful Get(k) moves k to the newest end of the recency
\* ordering, and the Put that follows it evicts the oldest entry, which is not
\* k when the recency ordering holds another key
TouchProtects ==
    [][/\ \A k \in Keys :
            GetStep(k) /\ op'.exc = "none" => age' = Append(Without(age, k), k)
       /\ \A key \in Keys, obj \in Values :
            (PutStep(key, obj) /\ op.name = "Get" /\ op.exc = "none")
            => /\ Removed \subseteq {Head(age)}
               /\ Len(age) > 1 => op.key \notin Removed
      ]_vars

\* C4: a Put into a full AgeBasedCache has evicted an entry and kept one that
\* was put before the evicted one: a Get had moved the kept one to the newest
\* end (as in Put(a), Put(b), Get(a), Put(c) with max_size = 2)
TouchProtectsWitness ==
    /\ variant = "Age"
    /\ limit = 2
    /\ op.name = "Put"
    /\ has_cb /\ Len(cb) = 1
    /\ \E k \in DOMAIN hash : k # op.key /\ hash[k][1] < cb[1][1]

\* C5: in the TimeBasedCache, Get of a present key raises Expired exactly when
\* now - timestamp > max_age, and otherwise returns the object and sets the
\* timestamp to now
SlidingTTL ==
    [][\A k \in Keys :
        (GetStep(k) /\ variant = "Time" /\ k \in DOMAIN hash)
        => IF now - hash[k][1] > max_age
           THEN op'.exc = "Expired"
           ELSE /\ op'.exc = "none"
                /\ op'.ret = hash[k][2]
                /\ k \in DOMAIN hash'
                /\ hash'[k] = <<now, hash[k][2]>>
      ]_vars

\* C5: a Get has refreshed one entry at a time at which another entry, put at
\* the same time as the first and not read since, is expired
SlidingTTLWitness ==
    /\ variant = "Time"
    /\ op.name = "Get" /\ op.exc = "none"
    /\ op.key \in DOMAIN hash /\ hash[op.key][1] = now
    /\ \E k \in DOMAIN hash : k # op.key /\ now - hash[k][1] > max_age

\* C6: in the AgeBasedCache, Get changes no timestamp, only Put(k) sets the
\* timestamp of k, and Get of a present key succeeds exactly when
\* now - timestamp <= max_age and raises Expired otherwise
AbsoluteTTL ==
    [][variant = "Age" =>
        /\ \A k \in Keys :
            GetStep(k)
            => /\ hash' = hash
               /\ k \in DOMAIN hash
                  => IF now - hash[k][1] <= max_age
                     THEN op'.exc = "none" /\ op'.ret = hash[k][2]
                     ELSE op'.exc = "Expired"
        /\ \A k \in Keys, obj \in Values :
            PutStep(k, obj) => k \in DOMAIN hash' /\ hash'[k] = <<now, obj>>
        /\ \A k \in DOMAIN hash \cap DOMAIN hash' :
            hash'[k] # hash[k] => \E obj \in Values : PutStep(k, obj)
      ]_vars

\* C6: a Get raised Expired for an entry that a later time would have kept
\* alive had an earlier read refreshed it
AbsoluteTTLWitness ==
    /\ variant = "Age"
    /\ op.name = "Get" /\ op.exc = "Expired"
    /\ op.key \in DOMAIN hash
    /\ now - hash[op.key][1] > max_age

\* C7: when Get raises Expired the entry is gone from the store and the
\* callback has been called for it
LazyPurge ==
    (op.name = "Get" /\ op.exc = "Expired")
    => ~Contains(op.key) /\ (has_cb => Len(cb) = 1)

\* C8: with no thread calling Get, when a sweep of the house keeper ends no
\* entry that was expired when the sweep started is left in the store
EagerPurge ==
    hk_pc = "sleep" => \A k \in DOMAIN hash : ~IsExpired(hash[k], hk_now)

\* C8, the part that holds (under FairSpecNoGet): with no thread calling Get,
\* an expired entry is eventually removed or replaced by a new Put
EventuallyPurged ==
    \A k \in Keys :
        (Timed /\ k \in DOMAIN hash /\ IsExpired(hash[k], now))
        ~> (~Timed \/ k \notin DOMAIN hash \/ ~IsExpired(hash[k], now))

\* C9: a call invokes the callback exactly once for each entry it removes,
\* and not at all when it removes none
CallbackOncePerRemoval ==
    [][(AnyCall /\ has_cb) => Len(cb') = Cardinality(Removed)]_vars

\* C10: ExpireObject(key) returns the object that was passed to Put and, for
\* an object other than None, the callback receives that object; it returns
\* None when the key is absent
RemoveReturnsValue ==
    [][\A k \in Keys :
        ExpireObjectStep(k)
        => IF k \in DOMAIN hash
           THEN /\ op'.ret = UserValue(hash[k])
                /\ (has_cb /\ UserValue(hash[k]) # PyNone) => cb' = <<UserValue(hash[k])>>
           ELSE op'.ret = PyNone /\ cb' = <<>>
      ]_vars

\* the stored objects of the keys of the list a that the dict h holds, in the
\* order of a
StoredInOrder(a, h) ==
    LET Live(k) == k \in DOMAIN h
        live == SelectSeq(a, Live)
    IN  [i \in 1..Len(live) |-> h[live[i]]]

\* the step that is the call Flush()
FlushStep == op'.name = "Flush" /\ DoFlush

\* C11: Flush calls the callback once for each stored entry, in the order of
\* the recency ordering, oldest first, and leaves the recency ordering and the
\* entry mapping empty, so that Contains is false for every key
FlushCompleteOrdered ==
    [][FlushStep
       => /\ has_cb => cb' = StoredInOrder(age, hash)
          /\ age' = <<>>
          /\ hash' = EmptyDict
          /\ \A k \in Keys : k \notin DOMAIN hash'
      ]_vars

\* C11, the part that holds: the same when no stored object is None
FlushCompleteOrderedNotNone ==
    [][(FlushStep /\ \A k \in DOMAIN hash : hash[k] # PyNone)
       => /\ has_cb => cb' = StoredInOrder(age, hash)
          /\ age' = <<>>
          /\ hash' = EmptyDict
      ]_vars

\* the step that is the call ExpireRegEx(regex)
ExpireRegExStep(regex) ==
    /\ op'.name = "ExpireRegEx"
    /\ \E keys \in KeyOrders(hash) : ExpireRegExCall(regex, keys)

\* the keys of the entry mapping that the regex matches
Matching(regex) == {k \in DOMAIN hash : ReMatch(regex, k)}

\* C12: ExpireRegEx(regex) removes exactly the entries whose keys match, as
\* they are when it is called, with one callback for each of them, and leaves
\* every other entry as it is
RemoveMatchingExact ==
    [][\A regex \in Patterns :
        ExpireRegExStep(regex)
        => /\ DOMAIN hash' = DOMAIN hash \ Matching(regex)
           /\ \A k \in DOMAIN hash' : hash'[k] = hash[k]
           /\ has_cb => Len(cb') = Cardinality(Matching(regex))
      ]_vars

\* C12, the part that holds: the same when no stored object is None
RemoveMatchingExactNotNone ==
    [][\A regex \in Patterns :
        (ExpireRegExStep(regex) /\ \A k \in DOMAIN hash : hash[k] # PyNone)
        => /\ DOMAIN hash' = DOMAIN hash \ Matching(regex)
           /\ \A k \in DOMAIN hash' : hash'[k] = hash[k]
           /\ has_cb => Len(cb') = Cardinality(Matching(regex))
      ]_vars

\* the steps that are the calls __getstate__() and __setstate__(state)
GetStateStep == op'.name = "GetState" /\ DoGetState
SetStateStep(state) == op'.name = "SetState" /\ SetStateCall(state)

\* C13: __getstate__ on a store with a callback raises RuntimeError and
\* changes nothing: the entries, the recency ordering and the configuration
\* are as before, no callback is called, and a Put and a Get of any key
\* succeed afterwards
SerializationGuard ==
    [][(GetStateStep /\ has_cb)
       => /\ op'.exc = "RuntimeError"
          /\ UNCHANGED <<config, thread, age, hash>>
          /\ cb' = <<>>
          /\ \A k \in Keys, obj \in Values :
                LET P == Put(Store(age', hash', <<>>), k, obj, now)
                    G == Get(Store(P.age, P.hash, <<>>), k, now)
                IN  P.exc = "none" /\ G.exc = "none" /\ G.ret = obj
      ]_vars

\* C13: __getstate__ has raised RuntimeError on a store that holds an entry
SerializationGuardWitness ==
    /\ op.name = "GetState" /\ op.exc = "RuntimeError"
    /\ has_cb
    /\ Cardinality(DOMAIN hash) = limit
    /\ Len(age) = limit

\* C14: on a store without a callback __getstate__ succeeds, leaves the store
\* empty and returns a dict with max_size only, or max_size and max_age only
\* in the timed caches; __setstate__ of that dict gives an empty store of the
\* same class with the same max_size and max_age
ExportImportRoundTrip ==
    [][/\ (GetStateStep /\ ~has_cb)
          => /\ op'.exc = "none"
             /\ age' = <<>> /\ hash' = EmptyDict
             /\ UNCHANGED config
             /\ DOMAIN op'.ret = IF Timed THEN {"max_size", "max_age"} ELSE {"max_size"}
             /\ op'.ret.max_size = limit
             /\ Timed => op'.ret.max_age = max_age
       /\ (op.name = "GetState" /\ op.exc = "none" /\ SetStateStep(op.ret))
          => /\ age' = <<>> /\ hash' = EmptyDict
             /\ variant' = variant
             /\ limit' = limit
             /\ Timed => max_age' = max_age
      ]_vars

\* C14: a timed cache has been made by __setstate__ from the dict that
\* __getstate__ returns for max_size = MaxSize, and is empty
ExportImportWitness ==
    /\ op.name = "SetState"
    /\ Timed
    /\ op.state = StateDict
    /\ limit = MaxSize
    /\ hash = EmptyDict /\ age = <<>>

\* C16: __setstate__ of a state dict whose max_size is not positive raises an
\* error and makes no store
ConstructionRejectsMalformed ==
    [][\A state \in ConfigStates :
        (SetStateStep(state) /\ state.max_size <= 0)
        => op'.exc # "none" /\ UNCHANGED <<config, thread, age, hash>>
      ]_vars

\* C15: in every class Put(key, obj) raises nothing and returns the key it
\* was given; afterwards the key is in the entry mapping with the new object
\* and is the last key of the recency ordering
PutReturnsKey ==
    [][\A key \in Keys, obj \in Values :
        PutStep(key, obj)
        => /\ op'.exc = "none"
           /\ op'.rkey = key
           /\ key \in DOMAIN hash' /\ UserValue(hash'[key]) = obj
           /\ Len(age') > 0 /\ age'[Len(age')] = key
      ]_vars

\* a step in which a client thread ran a method of the store
ClientCall ==
    \/ \E key \in Keys, obj \in Values : PutStep(key, obj)
    \/ \E key \in Keys : GetStep(key)
    \/ \E key \in Keys : ExpireObjectStep(key)
    \/ op'.name = "ExpireRegEx" /\ DoExpireRegEx
    \/ FlushStep
    \/ op'.name = "Expire" /\ DoExpire

\* the house keeper has read the first key of a sweep and has not yet
\* examined the last one
SweepInProgress ==
    /\ hk_pc \in {"iter", "expire"}
    /\ hk_idx >= 1
    /\ hk_idx < Len(age) \/ hk_pc = "expire"

\* C17: no client call on the store runs while a sweep of the house keeper
\* is in progress
SweepExcludesClients == [][SweepInProgress => ~ClientCall]_vars

\* C18: a Put removes an entry only if the entry mapping, with the key that
\* is put, would hold more than max_size entries
EvictsOnlyWhenOverCapacity ==
    [][\A key \in Keys, obj \in Values :
        (PutStep(key, obj) /\ Removed # {})
        => Cardinality(DOMAIN hash \cup {key}) > limit
      ]_vars

\* thread t is about to enter a synchronized method from inside another one
WantsLock(t) ==
    /\ stack[t] # <<>>
    /\ \/ Top(t).fn = "Put" /\ Top(t).pc = "expire"
       \/ Top(t).fn = "Expire" /\ Len(age) > limit
       \/ Top(t).fn = "ExpireObject" /\ Top(t).pc = "cb_call"

\* the frames of thread t in which the callback's ExpireObject is called on
\* the key that is being evicted: i is the frame of that inner call
InnerOnSameKey(t, i) ==
    /\ stack[t][i].fn = "ExpireObject"
    /\ stack[t][i - 1].fn = "ExpireObject"
    /\ stack[t][i - 1].pc = "in_cb"
    /\ stack[t][i - 1].arg = stack[t][i - 1].key

\* C19, in every state: a thread inside a call is never kept waiting for the
\* lock; the ExpireObject that the callback calls on the key being evicted
\* finds no object and calls no callback; and what it returned to the
\* callback is None
ReentrantRemoveSafe ==
    \A t \in Threads :
        /\ WantsLock(t) => CanAcquire(t)
        /\ \A i \in 2..Len(stack[t]) :
              (InnerOnSameKey(t, i) /\ stack[t][i].pc # "pop")
              => stack[t][i].obj = PyNone /\ stack[t][i].pc = "ret"
        /\ \A i \in 1..Len(stack[t]) :
              (stack[t][i].cbdone /\ stack[t][i].arg = stack[t][i].key)
              => stack[t][i].got = PyNone

\* C19: when the callback calls ExpireObject on the key that is being
\* evicted, on the evicting thread, the call does not wait for the lock,
\* returns None and does not call the callback again, and the call that
\* evicts returns
ReentrantRemove ==
    /\ []ReentrantRemoveSafe
    /\ \A t \in Threads : (stack[t] # <<>>) ~> (stack[t] = <<>>)

\* C19: a Put has evicted an entry through Expire, the callback has called
\* ExpireObject on the evicted key, and that call has returned None to it
ReentrantRemoveWitness ==
    /\ Len(stack["client"]) = 3
    /\ stack["client"][1].fn = "Put"
    /\ Top("client").fn = "ExpireObject"
    /\ Top("client").cbdone
    /\ Top("client").arg = Top("client").key
    /\ Top("client").got = PyNone
    /\ cb = <<Top("client").obj>>

\* the step in which the callback raises e in the house keeper's ExpireObject
HKRaiseStep(e) == op'.name = "HouseKeeper" /\ op'.exc = e /\ HKExpireRaise(e)

\* C20: when the callback raises for an entry the house keeper removes, the
\* house keeper goes on with the next key of the sweep: the other expired
\* entries are still removed and the thread lives on for later sweeps
CallbackFailureIsolated ==
    [][\A e \in CallbackErrors : HKRaiseStep(e) => hk_pc' = "iter"]_vars

\* C22: no key is twice in the recency ordering
KeysOnceInOrdering ==
    \A i, j \in 1..Len(age) : age[i] = age[j] => i = j

\* C22: a Put has moved its key to the end of a recency ordering that still
\* holds the key of an entry removed earlier
KeysOnceWitness ==
    /\ op.name = "Put"
    /\ Len(age) = 2
    /\ age[2] = op.key
    /\ age[1] \notin DOMAIN hash
    /\ op.key \in DOMAIN hash

\* the step in which the house keeper calls ExpireObject(hk_key)
HKExpireStep == op'.name = "HouseKeeper" /\ HKExpire

\* C23: an entry that the house keeper removes is expired at the time of
\* its removal
SweepRemovesOnlyExpired ==
    [][(HKExpireStep /\ hk_key \in DOMAIN hash) => IsExpired(hash[hk_key], now)]_vars

\* C24: a Get that raises leaves the recency ordering as it is
FailingGetIsNoTouch ==
    [][\A k \in Keys : (GetStep(k) /\ op'.exc # "none") => age' = age]_vars

\* C25: between the calls on the store, when no thread holds self.lock, every
\* key of the entry mapping is in the recency ordering
EntryKeysInOrdering == lock.owner = "none" => DOMAIN hash \subseteq SeqSet(age)

\* C25: a Put has evicted an entry, and the recency ordering holds the keys
\* of the entries and the key of an entry removed earlier
EntryKeysInOrderingWitness ==
    /\ op.name = "Put"
    /\ has_cb /\ Len(cb) = 1
    /\ DOMAIN hash # {}
    /\ SeqSet(age) # DOMAIN hash

\* the house keeper thread has left InterruptableThread.run
Terminated == hk_pc \in {"done", "dead"}

\* C21: shutdown response: once self.exit is set or `time` is gone, the
\* house keeper thread eventually leaves run; until then it completes at most
\* one more sleep and calls the target at most once more; and once it has
\* read the flag as set it only goes to the while test and returns, never
\* into another round of the for loop
ShutdownResponse ==
    /\ [](shut.sleeps <= 1 /\ shut.sweeps <= 1)
    /\ [](shut.seen => hk_pc \in {"start", "done"})
    /\ (Down ~> Terminated)

\* C21: the flag was set while the thread was asleep: it finished that sleep,
\* read the flag in the for loop and left run
ShutdownResponseWitness ==
    /\ hk_pc = "done"
    /\ has_time
    /\ shut.seen
    /\ shut.sleeps = 1
    /\ shut.sweeps = 0

====
